---- MODULE Spec2Model ----
(***************************************************************************)
(* Browser pool of wirklich.js (getBrowserPool): the priority queue, the   *)
(* roster of browsers, the scheduler pass _processQueue, the job runner    *)
(* (timeout race, then/catch/finally chain), killBrowser and shutdown.     *)
(*                                                                         *)
(* JavaScript runs each handler to completion, so every action below is    *)
(* one handler (one macrotask or one promise reaction) from its first line *)
(* to its last, every call it makes included.  What is asynchronous in the *)
(* code is a separate action here: a launch that settles, a browser that   *)
(* disconnects, a job function that settles, a timer that fires, the       *)
(* finally-reaction of a runner, a close() that fails.                     *)
(***************************************************************************)
EXTENDS Integers, Sequences, FiniteSets, TLC

\* Bounds of the model.
MaxTasks == 2    \* calls of the queue functions
MaxFaults == 1   \* crashes + failed launches + killBrowser calls + failed closes
                 \* + repeated shutdown() calls
MaxExtra == 2    \* jobs enqueued beyond the cap of their class

Priorities == {0, 1}
Types == {"default", "adblock"}
Origins == {"warmup", "ondemand", "replenish", "kill"}
LaunchKinds == Types \X Origins
TaskKinds == {"async", "throws"}   \* an async function / a function that throws when called
NoBrowser == -1

VARIABLES
  pool_size_default,     \* configuration, fixed at construction
  pool_size_adblock,
  adblockExtensionPath,  \* TRUE iff a path was configured
  maxPagesPerBrowser,
  phase,                 \* "configError" | "warmup" | "ready" | "failed" | "exited"
  pool,                  \* the mutable state of the pool, a record (see InitPool)
  taskBudget,            \* calls of the queue functions the callers may still make
  faultBudget            \* faults that may still happen

vars == <<pool_size_default, pool_size_adblock, adblockExtensionPath,
          maxPagesPerBrowser, phase, pool, taskBudget, faultBudget>>

config == <<pool_size_default, pool_size_adblock, adblockExtensionPath,
            maxPagesPerBrowser>>

(***************************************************************************)
(* Fields of pool:                                                         *)
(*   browsers          the roster: sequence of browser ids, in push order  *)
(*   bobj              id -> browserState object [type, busy, pagesOpen,   *)
(*                     conn]; objects outlive their roster entry.  conn is *)
(*                     "connected", "closing" (close() called, isConnected *)
(*                     still true) or "gone" (disconnected was emitted)    *)
(*   browserIdCounter  next browser id                                     *)
(*   items             taskQueue.items                                     *)
(*   taskIdCounter     taskQueue.taskIdCounter                             *)
(*   shuttingDown      the gate                                            *)
(*   launches          chromium.launch calls in flight, a bag over         *)
(*                     <<type, origin>>                                    *)
(*   landed            per origin, the launches whose browser is in the    *)
(*                     roster and whose starter has not continued yet      *)
(*   jobs              task id -> the caller's promise and the runner      *)
(*   calls             one record per call of shutdown(), in call order:   *)
(*                     queued (ids it found in the queue), closing (its    *)
(*                     browsersToClose), wait (those whose close() it still*)
(*                     awaits) and state: "closing" (at await Promise.all),*)
(*                     "timer" (the 100 ms timer is armed) or "resolved"   *)
(*   shutdownTimers    the calls whose 100 ms timer is armed, in the order *)
(*                     in which the timers were armed                      *)
(*   unhandled         a promise was rejected with no handler and node has *)
(*                     not processed the rejection yet                     *)
(*   ev                what the handler in progress has done so far: the   *)
(*                     promise a facade call returns, how many passes,     *)
(*                     launches and dispatches it made, and the queue item *)
(*                     it dispatched.  Only the result and the item of the *)
(*                     last handler outlive it, and a rejection it left    *)
(*                     unhandled is recorded in unhandled (Commit).        *)
(***************************************************************************)

\* The starters of a launch that continue when it lands: the on-demand branch
\* of _processQueue (.then) and killBrowser (await).
Continued == {"ondemand", "kill"}

NoEv ==
  [result |-> "", passes |-> 0, launched |-> 0, dispatched |-> 0, item |-> <<>>,
   unhandled |-> FALSE]

InitPool ==
  [browsers |-> <<>>, bobj |-> <<>>, browserIdCounter |-> 0,
   items |-> <<>>, taskIdCounter |-> 0, shuttingDown |-> FALSE,
   launches |-> [k \in LaunchKinds |-> 0],
   landed |-> [origin \in Continued |-> 0], jobs |-> <<>>,
   calls |-> <<>>, shutdownTimers |-> <<>>, unhandled |-> FALSE,
   ev |-> NoEv]

\* bobj and jobs are 0-based in the code; the sequences here are 1-based.
B(s, id) == s.bobj[id + 1]
J(s, id) == s.jobs[id + 1]
BrowserIds(s) == 0 .. (s.browserIdCounter - 1)
TaskIds(s) == 0 .. (s.taskIdCounter - 1)
Roster(s) == {s.browsers[i] : i \in 1 .. Len(s.browsers)}

(***************************************************************************)
(* PriorityQueue                                                           *)
(***************************************************************************)

\* Mutant of compare: ascending priority.
compareAscending(a, b) == a.priority - b.priority

\* The comparator of items.sort: negative or zero keeps a before b.
compare(a, b) == b.priority - a.priority

\* Mutant of insertStable: an element is put before its equals.
RECURSIVE insertBeforeEqual(_, _)
insertBeforeEqual(sorted, x) ==
  IF sorted = <<>> THEN <<x>>
  ELSE IF compare(Head(sorted), x) < 0
       THEN <<Head(sorted)>> \o insertBeforeEqual(Tail(sorted), x)
       ELSE <<x>> \o sorted

RECURSIVE insertStable(_, _)
insertStable(sorted, x) ==
  IF sorted = <<>> THEN <<x>>
  ELSE IF compare(Head(sorted), x) <= 0
       THEN <<Head(sorted)>> \o insertStable(Tail(sorted), x)
       ELSE <<x>> \o sorted

\* Array.prototype.sort with the comparator above; the sort is stable.
RECURSIVE sort(_)
sort(seq) ==
  IF seq = <<>> THEN <<>>
  ELSE insertStable(sort(SubSeq(seq, 1, Len(seq) - 1)), seq[Len(seq)])

isEmpty(s) == Len(s.items) = 0

\* Mutant of enqueue: every item gets id 0.
enqueueConstantId(s, task, priority, requirements) ==
  LET item == [task |-> task, priority |-> priority,
               requirements |-> requirements, id |-> 0]
  IN [s EXCEPT !.taskIdCounter = @ + 1,
               !.items = sort(Append(s.items, item))]

\* enqueue: id = taskIdCounter++, push, sort.  The new id is the old counter.
enqueue(s, task, priority, requirements) ==
  LET id == s.taskIdCounter
      item == [task |-> task, priority |-> priority,
               requirements |-> requirements, id |-> id]
  IN [s EXCEPT !.taskIdCounter = id + 1,
               !.items = sort(Append(s.items, item))]

\* dequeue: items.shift() (the caller reads the head before).
dequeue(s) == IF isEmpty(s) THEN s ELSE [s EXCEPT !.items = Tail(s.items)]

\* remove: items.filter((item) => item.id !== id).
remove(s, id) == [s EXCEPT !.items = SelectSeq(@, LAMBDA item : item.id # id)]

(***************************************************************************)
(* Roster and launch                                                       *)
(***************************************************************************)

isConnected(s, id) == B(s, id).conn # "gone"

RosterOfType(s, type) ==
  {i \in 1 .. Len(s.browsers) : B(s, s.browsers[i]).type = type}

\* browsers.filter((b) => b.type === type).length
countOfType(s, type) == Cardinality(RosterOfType(s, type))

maxOfType(type) ==
  IF type = "adblock" THEN pool_size_adblock ELSE pool_size_default

\* _launchBrowser("adblock") without a configured path launches a default browser.
effectiveType(type) ==
  IF type = "adblock" /\ ~adblockExtensionPath THEN "default" ELSE type

\* _launchBrowser up to the await of chromium.launch: one more launch in flight.
\* origin names the continuation the caller attaches to the returned promise.
launchBrowser(s, type, origin) ==
  [s EXCEPT !.launches[<<effectiveType(type), origin>>] = @ + 1,
            !.ev.launched = @ + 1]

\* _launchBrowser after chromium.launch resolved: a fresh browserState is
\* registered and pushed, whatever the pool is doing by then.
launchResolved(s, type) ==
  LET browserId == s.browserIdCounter
      browserState == [id |-> browserId, type |-> type, busy |-> FALSE,
                       pagesOpen |-> 0, conn |-> "connected"]
  IN [s EXCEPT !.browserIdCounter = browserId + 1,
               !.bobj = Append(@, browserState),
               !.browsers = Append(@, browserId)]

\* browser.close(): isConnected() stays true until "disconnected" is emitted.
close(s, id) ==
  IF B(s, id).conn = "connected" THEN [s EXCEPT !.bobj[id + 1].conn = "closing"]
  ELSE s

\* Mutant of removeBrowserFromPool: the jobs running on the browser are
\* rejected as well.
removeBrowserFromPoolAndReject(s, id) ==
  LET s1 == [s EXCEPT !.browsers = SelectSeq(@, LAMBDA b : b # id),
                      !.jobs = [i \in DOMAIN @ |->
                                  IF @[i].worker = id /\ @[i].prom = "pending"
                                  THEN [@[i] EXCEPT !.prom = "rejectedError",
                                                    !.settles = @ + 1]
                                  ELSE @[i]]]
  IN IF isConnected(s1, id) THEN close(s1, id) ELSE s1

\* _removeBrowserFromPool: splice the entry with that id, close it if connected.
removeBrowserFromPool(s, id) ==
  LET s1 == [s EXCEPT !.browsers = SelectSeq(@, LAMBDA b : b # id)]
  IN IF isConnected(s1, id) THEN close(s1, id) ELSE s1

(***************************************************************************)
(* Scheduler pass and job runner                                           *)
(***************************************************************************)

requiredTypeOf(requirements) ==
  IF requirements.use_adblock THEN "adblock" ELSE "default"

\* Mutant of eligible: the busy test left out.
eligibleIgnoringBusy(s, id, requiredType) ==
  /\ B(s, id).pagesOpen < maxPagesPerBrowser
  /\ B(s, id).type = requiredType
  /\ isConnected(s, id)

\* Mutant of eligible: the type test left out.
eligibleAnyType(s, id, requiredType) ==
  /\ ~B(s, id).busy
  /\ B(s, id).pagesOpen < maxPagesPerBrowser
  /\ isConnected(s, id)

\* The predicate of browsers.find in _findSuitableBrowser.
eligible(s, id, requiredType) ==
  /\ ~B(s, id).busy
  /\ B(s, id).pagesOpen < maxPagesPerBrowser
  /\ B(s, id).type = requiredType
  /\ isConnected(s, id)

\* Mutant of findSuitableBrowser: every browser ever launched is searched,
\* not the roster.
findSuitableBrowserAmongAll(s, taskRequirements) ==
  LET requiredType == requiredTypeOf(taskRequirements)
      found == {b \in BrowserIds(s) : eligible(s, b, requiredType)}
  IN IF found = {} THEN NoBrowser
     ELSE CHOOSE b \in found : \A c \in found : b <= c

\* _findSuitableBrowser: the first eligible roster entry, or NoBrowser.
findSuitableBrowser(s, taskRequirements) ==
  LET requiredType == requiredTypeOf(taskRequirements)
      found == {i \in 1 .. Len(s.browsers) : eligible(s, s.browsers[i], requiredType)}
  IN IF found = {} THEN NoBrowser
     ELSE s.browsers[CHOOSE i \in found : \A j \in found : i <= j]

\* queuedItem.resolve / queuedItem.reject: the first call settles the promise,
\* every call is counted.
settle(s, id, how) ==
  [s EXCEPT !.jobs[id + 1].prom = IF @ = "pending" THEN how ELSE @,
            !.jobs[id + 1].settles = @ + 1]

\* _processQueue, the branch that found a browser: dequeue, mark busy, call the
\* task, arm the timer, build the race.  A task that throws when called leaves
\* the function there: no timer, no race, no handlers; the promise the async
\* _processQueue returned is rejected (ev.unhandled until a caller catches it).
dispatch(s, availableBrowser) ==
  LET queuedItem == s.items[1]
      id == queuedItem.id
      s1 == dequeue(s)
      s2 == [s1 EXCEPT !.bobj[availableBrowser + 1].busy = TRUE,
                       !.bobj[availableBrowser + 1].pagesOpen = @ + 1,
                       !.jobs[id + 1].worker = availableBrowser,
                       !.ev.dispatched = @ + 1,
                       !.ev.item = Append(@, queuedItem)]
  IN IF queuedItem.task = "throws"
     THEN [s2 EXCEPT !.jobs[id + 1].run = "threw",
                     !.jobs[id + 1].fn = "threw",
                     !.ev.unhandled = TRUE]
     ELSE [s2 EXCEPT !.jobs[id + 1].run = "racing",
                     !.jobs[id + 1].fn = "running",
                     !.jobs[id + 1].timer = "armed",
                     !.jobs[id + 1].taskCompleted = FALSE]

\* Mutant of processQueue: the pass matches the first queued job that has an
\* eligible browser, not only the head.
processQueueAnyItem(s) ==
  LET s0 == [s EXCEPT !.ev.passes = @ + 1]
  IN IF s0.shuttingDown \/ isEmpty(s0) THEN s0
     ELSE LET matching == {i \in 1 .. Len(s0.items) :
                            findSuitableBrowser(s0, s0.items[i].requirements) # NoBrowser}
              requiredType == requiredTypeOf(s0.items[1].requirements)
          IN IF matching # {}
             THEN LET i == CHOOSE x \in matching : \A y \in matching : x <= y
                      chosen == s0.items[i]
                      others == SelectSeq(s0.items, LAMBDA item : item.id # chosen.id)
                  IN dispatch([s0 EXCEPT !.items = <<chosen>> \o others],
                              findSuitableBrowser(s0, chosen.requirements))
             ELSE IF countOfType(s0, requiredType) < maxOfType(requiredType)
                  THEN launchBrowser(s0, requiredType, "ondemand")
                  ELSE s0

\* Mutant of processQueue: the cap test of the on-demand branch left out.
processQueueNoCap(s) ==
  LET s0 == [s EXCEPT !.ev.passes = @ + 1]
  IN IF s0.shuttingDown \/ isEmpty(s0) THEN s0
     ELSE LET nextTaskItem == s0.items[1]
              availableBrowser == findSuitableBrowser(s0, nextTaskItem.requirements)
              requiredType == requiredTypeOf(nextTaskItem.requirements)
          IN IF availableBrowser # NoBrowser THEN dispatch(s0, availableBrowser)
             ELSE launchBrowser(s0, requiredType, "ondemand")

\* Mutant of processQueue: the on-demand branch also takes the head job off
\* the queue.
processQueueLaunchDequeues(s) ==
  LET s0 == [s EXCEPT !.ev.passes = @ + 1]
  IN IF s0.shuttingDown \/ isEmpty(s0) THEN s0
     ELSE LET nextTaskItem == s0.items[1]
              availableBrowser == findSuitableBrowser(s0, nextTaskItem.requirements)
              requiredType == requiredTypeOf(nextTaskItem.requirements)
              totalOfType == countOfType(s0, requiredType)
          IN IF availableBrowser # NoBrowser THEN dispatch(s0, availableBrowser)
             ELSE IF totalOfType < maxOfType(requiredType)
                  THEN dequeue(launchBrowser(s0, requiredType, "ondemand"))
                  ELSE s0

\* Mutant of processQueue: at the cap, the head job is taken off the queue
\* and rejected.
processQueueDropsHead(s) ==
  LET s0 == [s EXCEPT !.ev.passes = @ + 1]
  IN IF s0.shuttingDown \/ isEmpty(s0) THEN s0
     ELSE LET nextTaskItem == s0.items[1]
              availableBrowser == findSuitableBrowser(s0, nextTaskItem.requirements)
              requiredType == requiredTypeOf(nextTaskItem.requirements)
              totalOfType == countOfType(s0, requiredType)
          IN IF availableBrowser # NoBrowser THEN dispatch(s0, availableBrowser)
             ELSE IF totalOfType < maxOfType(requiredType)
                  THEN launchBrowser(s0, requiredType, "ondemand")
                  ELSE settle(dequeue(s0), nextTaskItem.id, "rejectedError")

\* _processQueue: one pass.
processQueue(s) ==
  LET s0 == [s EXCEPT !.ev.passes = @ + 1]
  IN IF s0.shuttingDown \/ isEmpty(s0) THEN s0
     ELSE LET nextTaskItem == s0.items[1]
              availableBrowser == findSuitableBrowser(s0, nextTaskItem.requirements)
              requiredType == requiredTypeOf(nextTaskItem.requirements)
              totalOfType == countOfType(s0, requiredType)
          IN IF availableBrowser # NoBrowser THEN dispatch(s0, availableBrowser)
             ELSE IF totalOfType < maxOfType(requiredType)
                  THEN launchBrowser(s0, requiredType, "ondemand")
                  ELSE s0

\* .then of the race: latch, resolve the caller's promise.
thenHandler(s, id) ==
  LET s1 == [s EXCEPT !.jobs[id + 1].taskCompleted = TRUE,
                      !.jobs[id + 1].run = "reported"]
  IN settle(s1, id, "resolved")

\* .catch of the race: latch, log error.message.split(...), reject the caller's
\* promise.  error is "error" (an Error of the job), "timeout" (the timer's
\* Error) or "noMessage" (a value without a message string: the log line
\* throws and reject is not reached).
catchHandler(s, id, error) ==
  LET s1 == [s EXCEPT !.jobs[id + 1].taskCompleted = TRUE,
                      !.jobs[id + 1].run = "reported"]
  IN IF error = "noMessage" THEN s1
     ELSE settle(s1, id, IF error = "timeout" THEN "rejectedTimeout" ELSE "rejectedError")

\* Mutant of finallyHandler: pagesOpen is decremented, busy is left set.
finallyHandlerKeepsBusy(s, id) ==
  LET w == J(s, id).worker
      s1 == [s EXCEPT !.bobj[w + 1].pagesOpen = @ - 1,
                      !.jobs[id + 1].run = "done",
                      !.jobs[id + 1].releases = @ + 1,
                      !.ev.unhandled = @ \/ J(s, id).prom = "pending"]
  IN processQueue(s1)

\* .finally of the chain up to its call of _processQueue: release the
\* browserState object.  When the .catch handler threw (its log line, on an
\* error without a message string: the caller's promise is still pending),
\* the promise .finally returns is rejected with that TypeError and nothing
\* handles it.
release(s, id) ==
  LET w == J(s, id).worker
  IN [s EXCEPT !.bobj[w + 1].pagesOpen = @ - 1,
               !.bobj[w + 1].busy = FALSE,
               !.jobs[id + 1].run = "done",
               !.jobs[id + 1].releases = @ + 1,
               !.ev.unhandled = @ \/ J(s, id).prom = "pending"]

\* .finally of the chain: release the browserState object, run a pass.
finallyHandler(s, id) == processQueue(release(s, id))

(***************************************************************************)
(* Disconnect observer, facade, killBrowser, shutdown                      *)
(***************************************************************************)

\* Mutant of onDisconnected: the shuttingDown test left out.
onDisconnectedUngated(s, id) ==
  LET s1 == removeBrowserFromPool(s, id)
      type == B(s1, id).type
      s2 == IF countOfType(s1, type) < maxOfType(type)
            THEN launchBrowser(s1, type, "replenish")
            ELSE s1
  IN processQueue(s2)

\* browser.on("disconnected", ...): runs when the connection is already gone.
\* The handler up to its call of _processQueue: remove the browser, start a
\* replacement when the type is below its cap.
removeAndReplenish(s, id) ==
  LET s1 == removeBrowserFromPool(s, id)
      type == B(s1, id).type
  IN IF ~s1.shuttingDown /\ countOfType(s1, type) < maxOfType(type)
     THEN launchBrowser(s1, type, "replenish")
     ELSE s1

onDisconnected(s, id) ==
  IF ~s.shuttingDown THEN processQueue(removeAndReplenish(s, id))
  ELSE removeAndReplenish(s, id)

NewJob ==
  [prom |-> "pending", settles |-> 0, run |-> "queued", fn |-> "notStarted",
   timer |-> "none", taskCompleted |-> FALSE, worker |-> NoBrowser,
   releases |-> 0, first |-> "none"]

\* Mutant of queueTaskWithRequirements: the shuttingDown gate left out.
queueTaskWithRequirementsUngated(s, taskFunction, requirements, priority) ==
  IF taskFunction \notin TaskKinds THEN [s EXCEPT !.ev.result = "notAFunction"]
  ELSE IF requirements.use_adblock /\ ~adblockExtensionPath
       THEN [s EXCEPT !.ev.result = "noAdblockPath"]
  ELSE IF requirements.use_adblock /\ pool_size_adblock = 0
       THEN [s EXCEPT !.ev.result = "adblockPoolZero"]
  ELSE LET s1 == enqueue(s, taskFunction, priority, requirements)
           s2 == [s1 EXCEPT !.jobs = Append(@, NewJob), !.ev.result = "queued"]
       IN processQueue(s2)

\* queueTaskWithRequirements: four admission tests, then enqueue and one pass.
\* ev.result is the promise the caller gets: a rejection reason, or "queued"
\* for the pending promise of an accepted job.
queueTaskWithRequirements(s, taskFunction, requirements, priority) ==
  IF s.shuttingDown THEN [s EXCEPT !.ev.result = "shuttingDown"]
  ELSE IF taskFunction \notin TaskKinds THEN [s EXCEPT !.ev.result = "notAFunction"]
  ELSE IF requirements.use_adblock /\ ~adblockExtensionPath
       THEN [s EXCEPT !.ev.result = "noAdblockPath"]
  ELSE IF requirements.use_adblock /\ pool_size_adblock = 0
       THEN [s EXCEPT !.ev.result = "adblockPoolZero"]
  ELSE LET s1 == enqueue(s, taskFunction, priority, requirements)
           s2 == [s1 EXCEPT !.jobs = Append(@, NewJob), !.ev.result = "queued"]
       IN processQueue(s2)

\* queueScreenshotTask: the shape test on the task object, then admission.
queueScreenshotTask(s, screenshotTaskObject, priority) ==
  IF ~screenshotTaskObject.wellFormed
  THEN [s EXCEPT !.ev.result = "invalidTaskObject"]
  ELSE queueTaskWithRequirements(s, screenshotTaskObject.taskFn,
                                 screenshotTaskObject.requirements, priority)

\* queueScreencastTask: the same shape test, then admission.
queueScreencastTask(s, screencastTaskObject, priority) ==
  IF ~screencastTaskObject.wellFormed
  THEN [s EXCEPT !.ev.result = "invalidTaskObject"]
  ELSE queueTaskWithRequirements(s, screencastTaskObject.taskFn,
                                 screencastTaskObject.requirements, priority)

\* killBrowser up to its await: remove, close, maybe start a replacement whose
\* success runs a pass.  An instance that is not in the roster is only closed.
killBrowser(s, b, replenish, specificTypeToReplenish) ==
  IF b \in Roster(s)
  THEN LET typeToReplenish == IF specificTypeToReplenish # "null"
                              THEN specificTypeToReplenish ELSE B(s, b).type
           s1 == removeBrowserFromPool(s, b)
       IN IF replenish /\ ~s1.shuttingDown
             /\ countOfType(s1, typeToReplenish) < maxOfType(typeToReplenish)
          THEN launchBrowser(s1, typeToReplenish, "kill")
          ELSE s1
  ELSE IF isConnected(s, b) THEN close(s, b) ELSE s

\* Mutant of drain: the queue is emptied and nobody is told.
drainWithoutReject(s) == [s EXCEPT !.items = <<>>]

\* The drain loop of shutdown: every queued item is dequeued and rejected.
RECURSIVE drain(_)
drain(s) ==
  IF isEmpty(s) THEN s
  ELSE LET queuedItem == s.items[1]
           s1 == dequeue(s)
           s2 == settle(s1, queuedItem.id, "rejectedShutdown")
       IN drain([s2 EXCEPT !.jobs[queuedItem.id + 1].run = "drained"])

RECURSIVE closeAll(_, _)
closeAll(s, ids) ==
  IF ids = {} THEN s
  ELSE LET b == CHOOSE x \in ids : TRUE
       IN closeAll(close(s, b), ids \ {b})

\* The record of a call of shutdown() that found the ids queued in the queue
\* and called close() on browsersToClose, of which wait are still connected:
\* the call is at await Promise.all(closePromises).
ShutdownCalled(s, queued, browsersToClose, wait) ==
  LET call == [queued |-> queued, closing |-> browsersToClose, wait |-> wait,
               state |-> "closing"]
  IN [s EXCEPT !.calls = Append(@, call)]

\* Mutant of shutdown: no browser is closed and nothing is awaited.
shutdownWithoutClosing(s) ==
  LET s1 == [s EXCEPT !.shuttingDown = TRUE]
      queued == {s.items[i].id : i \in 1 .. Len(s.items)}
  IN ShutdownCalled(drain(s1), queued, {}, {})

\* Mutant of shutdown: the jobs already dispatched are cancelled as well.
shutdownCancelsRunning(s) ==
  LET s1 == [s EXCEPT !.shuttingDown = TRUE]
      queued == {s.items[i].id : i \in 1 .. Len(s.items)}
      s2 == drain(s1)
      browsersToClose == Roster(s2)
      s3 == closeAll(s2, browsersToClose)
      s4 == ShutdownCalled(s3, queued, browsersToClose,
                           {b \in browsersToClose : isConnected(s2, b)})
  IN [s4 EXCEPT !.jobs = [i \in DOMAIN @ |->
                            IF @[i].prom = "pending"
                            THEN [@[i] EXCEPT !.prom = "rejectedShutdown",
                                              !.settles = @ + 1]
                            ELSE @[i]]]

\* shutdown up to its first await: gate, drain, call close() on every roster
\* entry.  The closes settle later (CloseResolves, CloseFails); when all of
\* them have settled the call continues behind await Promise.all and arms
\* its 100 ms timer (ClosesSettled), and it resolves when that timer fires
\* (ShutdownResolves).  Nothing keeps a caller from calling it again: the
\* call then finds the queue empty, closes whatever the roster holds by
\* then, and has its own closePromises, timer and promise.
shutdown(s) ==
  LET s1 == [s EXCEPT !.shuttingDown = TRUE]
      queued == {s.items[i].id : i \in 1 .. Len(s.items)}
      s2 == drain(s1)
      browsersToClose == Roster(s2)
      s3 == closeAll(s2, browsersToClose)
  IN ShutdownCalled(s3, queued, browsersToClose,
                    {b \in browsersToClose : isConnected(s2, b)})

\* The close() of browser b that call i of shutdown() awaits has resolved.
closeSettled(s, i, b) == [s EXCEPT !.calls[i].wait = @ \ {b}]

\* The close() of browser b that call i of shutdown() awaits has rejected:
\* the catch removes the browser from the roster.
closeFailed(s, i, b) == closeSettled(removeBrowserFromPool(s, b), i, b)

\* What the caller of _launchBrowser does when the launch resolves: the
\* on-demand branch of _processQueue and killBrowser run a pass, the
\* disconnect observer and the warm-up attach nothing to success.  The
\* on-demand branch chains .catch behind its pass, which handles a rejection
\* of that pass; killBrowser does not await its pass.
thenOfLaunch(s, origin) ==
  IF origin = "ondemand" THEN [processQueue(s) EXCEPT !.ev.unhandled = s.ev.unhandled]
  ELSE IF origin = "kill" THEN processQueue(s)
  ELSE s

\* What the caller of _launchBrowser does when the launch rejects: every
\* caller logs; the warm-up's catch calls shutdown(true) on the first failure.
catchOfLaunch(s, origin) ==
  IF origin = "warmup" /\ phase = "warmup" THEN shutdown(s) ELSE s

\* getStats
getStats(s) ==
  [totalBrowsers |-> Len(s.browsers),
   defaultBrowsers |-> countOfType(s, "default"),
   adblockBrowsers |-> countOfType(s, "adblock"),
   busyBrowsers |-> Cardinality({i \in 1 .. Len(s.browsers) : B(s, s.browsers[i]).busy}),
   idleBrowsers |-> Cardinality({i \in 1 .. Len(s.browsers) : ~B(s, s.browsers[i]).busy}),
   queuedTasks |-> Len(s.items)]

(***************************************************************************)
(* Construction                                                            *)
(***************************************************************************)

RECURSIVE launchN(_, _, _)
launchN(s, type, n) ==
  IF n = 0 THEN s ELSE launchN(launchBrowser(s, type, "warmup"), type, n - 1)

\* getBrowserPool up to the await of Promise.all: every initial launch started.
getBrowserPool ==
  LET s1 == launchN(InitPool, "default", pool_size_default)
      s2 == IF pool_size_adblock > 0 /\ adblockExtensionPath
            THEN launchN(s1, "adblock", pool_size_adblock)
            ELSE s1
  IN [s2 EXCEPT !.ev = NoEv]

WarmupPending(s) ==
  s.launches[<<"default", "warmup">>] + s.launches[<<"adblock", "warmup">>]

TaskObjects ==
  [wellFormed : {TRUE}, taskFn : TaskKinds, requirements : [use_adblock : BOOLEAN]]
    \cup {[wellFormed |-> FALSE, taskFn |-> "async",
           requirements |-> [use_adblock |-> FALSE]]}

\* The runs explored: <<pool_size_default, pool_size_adblock,
\* adblockExtensionPath, maxPagesPerBrowser, taskBudget, faultBudget>>.
\* One class with jobs and faults, two classes without faults, one job with
\* more faults, the empty pools, a construction that throws, a warm-up of
\* two launches of which one may fail, and one class without browsers
\* beside one with a browser.
Scenarios ==
  { <<1, 0, FALSE, 1, MaxTasks, MaxFaults>>,
    <<1, 1, TRUE, 1, 0, MaxFaults>>,
    <<0, 1, TRUE, 1, MaxTasks, 0>>,
    <<1, 1, TRUE, 2, MaxTasks, 0>>,
    <<1, 0, FALSE, 2, 1, MaxFaults + 1>>,
    <<0, 1, TRUE, 1, 1, MaxFaults>>,
    <<0, 0, TRUE, 1, MaxTasks, 0>>,
    <<0, 1, FALSE, 1, 0, 0>>,
    <<1, 1, FALSE, 1, 0, 0>> }

\* Mutant of Construct: the configuration test left out.
ConstructUnchecked(c) ==
  /\ pool_size_default = c[1]
  /\ pool_size_adblock = c[2]
  /\ adblockExtensionPath = c[3]
  /\ maxPagesPerBrowser = c[4]
  /\ taskBudget = c[5]
  /\ faultBudget = c[6]
  /\ pool = getBrowserPool
  /\ phase = IF WarmupPending(getBrowserPool) = 0 THEN "ready" ELSE "warmup"

\* getBrowserPool: the configuration test, then the warm-up launches.
Construct(c) ==
  /\ pool_size_default = c[1]
  /\ pool_size_adblock = c[2]
  /\ adblockExtensionPath = c[3]
  /\ maxPagesPerBrowser = c[4]
  /\ taskBudget = c[5]
  /\ faultBudget = c[6]
  /\ IF pool_size_adblock > 0 /\ ~adblockExtensionPath
     THEN phase = "configError" /\ pool = InitPool
     ELSE /\ pool = getBrowserPool
          /\ phase = IF WarmupPending(getBrowserPool) = 0 THEN "ready" ELSE "warmup"

Init == \E c \in Scenarios : Construct(c)

(***************************************************************************)
(* Actions                                                                 *)
(***************************************************************************)

\* A handler starts with an empty log; the stored state keeps the result and
\* the dispatched item only.
Begin == [pool EXCEPT !.ev = NoEv]
Commit(s) ==
  [s EXCEPT !.unhandled = @ \/ s.ev.unhandled,
            !.ev = [NoEv EXCEPT !.result = s.ev.result, !.item = s.ev.item]]

\* A runner whose then/catch ran and whose finally has not: promise reactions
\* run before any timer, I/O completion or process event is delivered.
\* The same holds for the starter of a launch that has landed and for a call of
\* shutdown() whose closes have all settled.
NoReactionPending ==
  /\ \A id \in TaskIds(pool) : J(pool, id).run # "reported"
  /\ \A origin \in Continued : pool.landed[origin] = 0
  /\ \A i \in 1 .. Len(pool.calls) :
       pool.calls[i].state = "closing" => pool.calls[i].wait # {}

\* The process is running.  Node processes the rejections that nothing
\* handles when the microtask queue has drained, before the next macrotask:
\* under its default --unhandled-rejections=throw the process ends there
\* (ProcessExits); a host that listens to 'unhandledRejection' keeps it
\* running (RejectionReported).  Both hosts are behaviours.
Alive == phase # "exited"

\* A timer, an I/O completion or a process event can be delivered: no promise
\* reaction is queued and no unhandled rejection awaits node.
TurnOver == NoReactionPending /\ ~pool.unhandled

\* Promise.race settles with the first of the job function and the timer.
Won(s, id, racer) == [s EXCEPT !.jobs[id + 1].first = racer]

\* chromium.launch resolves: _launchBrowser registers the browser (push at
\* 144) and its promise resolves.  The starter continues in a later reaction
\* (LaunchContinues); the disconnect observer attaches nothing to success.
\* The warm-up continues behind await Promise.all at once: no caller holds
\* the pool yet and no job exists whose reaction could run in between.
LaunchSucceeds(type, origin) ==
  /\ Alive
  /\ pool.launches[<<type, origin>>] > 0
  /\ TurnOver
  /\ LET s0 == [Begin EXCEPT !.launches[<<type, origin>>] = @ - 1]
         s1 == launchResolved(s0, type)
         s2 == IF origin \in Continued THEN [s1 EXCEPT !.landed[origin] = @ + 1]
               ELSE s1
     IN /\ pool' = Commit(s2)
        /\ phase' = IF phase = "warmup" /\ origin = "warmup" /\ WarmupPending(s2) = 0
                    THEN "ready" ELSE phase
  /\ UNCHANGED <<config, taskBudget, faultBudget>>

\* The starter of a launch that has landed continues: .then(() =>
\* _processQueue()) of the on-demand branch, or killBrowser behind its await.
LaunchContinues(origin) ==
  /\ Alive
  /\ pool.landed[origin] > 0
  /\ pool' = Commit(thenOfLaunch([Begin EXCEPT !.landed[origin] = @ - 1], origin))
  /\ UNCHANGED <<config, phase, taskBudget, faultBudget>>

\* chromium.launch rejects: logged by every continuation; the first failure of
\* an initial launch rejects Promise.all, and getBrowserPool calls shutdown(true).
LaunchFails(type, origin) ==
  /\ Alive
  /\ pool.launches[<<type, origin>>] > 0
  /\ TurnOver
  /\ faultBudget > 0
  /\ LET s0 == [Begin EXCEPT !.launches[<<type, origin>>] = @ - 1]
     IN /\ pool' = Commit(catchOfLaunch(s0, origin))
        /\ phase' = IF origin = "warmup" /\ phase = "warmup" THEN "failed" ELSE phase
  /\ faultBudget' = faultBudget - 1
  /\ UNCHANGED <<config, taskBudget>>

\* A connected browser dies: "disconnected" is emitted.
Crashed(b) ==
  /\ Alive
  /\ B(pool, b).conn = "connected"
  /\ TurnOver
  /\ faultBudget > 0
  /\ LET s0 == [Begin EXCEPT !.bobj[b + 1].conn = "gone"]
         s1 == onDisconnected(s0, b)
     IN pool' = Commit(s1)
  /\ faultBudget' = faultBudget - 1
  /\ UNCHANGED <<config, phase, taskBudget>>

\* A browser that is being closed disconnects: "disconnected" is emitted.
\* The close() calls that await it resolve later (CloseResolves).
Closed(b) ==
  /\ Alive
  /\ B(pool, b).conn = "closing"
  /\ TurnOver
  /\ pool' = Commit(onDisconnected([Begin EXCEPT !.bobj[b + 1].conn = "gone"], b))
  /\ UNCHANGED <<config, phase, taskBudget, faultBudget>>

\* await browserState.browser.close() of call i of shutdown() resolves, the
\* browser having disconnected.
CloseResolves(i, b) ==
  /\ Alive
  /\ b \in pool.calls[i].wait
  /\ B(pool, b).conn = "gone"
  /\ pool' = Commit(closeSettled(Begin, i, b))
  /\ UNCHANGED <<config, phase, taskBudget, faultBudget>>

\* A caller enqueues through queueScreenshotTask or queueScreencastTask.
Enqueue(api, taskObject, priority) ==
  /\ phase = "ready"
  /\ LET s1 == IF api = "screenshot"
               THEN queueScreenshotTask(Begin, taskObject, priority)
               ELSE queueScreencastTask(Begin, taskObject, priority)
     IN /\ taskBudget > 0
        /\ pool' = Commit(s1)
        /\ taskBudget' = taskBudget - 1
  /\ UNCHANGED <<config, phase, faultBudget>>

\* The job function's promise resolves; if the race is still open, .then runs.
TaskResolves(id) ==
  /\ Alive
  /\ J(pool, id).fn = "running"
  /\ LET s0 == [Begin EXCEPT !.jobs[id + 1].fn = "settled"]
     IN pool' = Commit(IF J(s0, id).run = "racing"
                       THEN thenHandler(Won(s0, id, "success"), id) ELSE s0)
  /\ UNCHANGED <<config, phase, taskBudget, faultBudget>>

\* The job function's promise rejects; if the race is still open, .catch runs.
TaskRejects(id, error) ==
  /\ Alive
  /\ J(pool, id).fn = "running"
  /\ LET s0 == [Begin EXCEPT !.jobs[id + 1].fn = "settled"]
     IN pool' = Commit(IF J(s0, id).run = "racing"
                       THEN catchHandler(Won(s0, id, "failure"), id, error) ELSE s0)
  /\ UNCHANGED <<config, phase, taskBudget, faultBudget>>

\* The setTimeout callback: rejects timeoutPromise unless the latch is set; if
\* the race is still open, .catch runs with the timeout error.
TimerFires(id) ==
  /\ Alive
  /\ J(pool, id).timer = "armed"
  /\ TurnOver
  /\ LET s0 == [Begin EXCEPT !.jobs[id + 1].timer = "fired"]
     IN pool' = Commit(IF ~J(s0, id).taskCompleted /\ J(s0, id).run = "racing"
                       THEN catchHandler(Won(s0, id, "timeout"), id, "timeout") ELSE s0)
  /\ UNCHANGED <<config, phase, taskBudget, faultBudget>>

\* The .finally reaction of a runner.
Release(id) ==
  /\ Alive
  /\ J(pool, id).run = "reported"
  /\ pool' = Commit(finallyHandler(Begin, id))
  /\ UNCHANGED <<config, phase, taskBudget, faultBudget>>

\* A caller kills a browser; callers get browser handles from their jobs only.
KillBrowser(b, replenish, specificTypeToReplenish) ==
  /\ phase = "ready"
  /\ \E id \in TaskIds(pool) : J(pool, id).worker = b
  /\ faultBudget > 0
  /\ pool' = Commit(killBrowser(Begin, b, replenish, specificTypeToReplenish))
  /\ faultBudget' = faultBudget - 1
  /\ UNCHANGED <<config, phase, taskBudget>>

\* A caller calls shutdown(), for the first time or again; the repeated
\* calls are counted with the faults.
ShutdownCall ==
  /\ phase = "ready"
  /\ pool.calls # <<>> => faultBudget > 0
  /\ pool' = Commit(shutdown(Begin))
  /\ faultBudget' = IF pool.calls # <<>> THEN faultBudget - 1 ELSE faultBudget
  /\ UNCHANGED <<config, phase, taskBudget>>

\* A close() awaited by call i of shutdown() rejects, the browser still being
\* connected: the catch of the call removes the browser.
CloseFails(i, b) ==
  /\ Alive
  /\ b \in pool.calls[i].wait
  /\ B(pool, b).conn = "closing"
  /\ TurnOver
  /\ faultBudget > 0
  /\ pool' = Commit(closeFailed(Begin, i, b))
  /\ faultBudget' = faultBudget - 1
  /\ UNCHANGED <<config, phase, taskBudget>>

\* Every close of call i has settled: the call continues behind await
\* Promise.all(closePromises) and arms its 100 ms timer.
ClosesSettled(i) ==
  /\ Alive
  /\ pool.calls[i].state = "closing"
  /\ pool.calls[i].wait = {}
  /\ pool' = Commit([Begin EXCEPT !.calls[i].state = "timer",
                                  !.shutdownTimers = Append(@, i)])
  /\ UNCHANGED <<config, phase, taskBudget, faultBudget>>

\* The 100 ms timer that was armed first fires: that call of shutdown()
\* resolves.
ShutdownResolves ==
  /\ Alive
  /\ pool.shutdownTimers # <<>>
  /\ TurnOver
  /\ pool' = Commit([Begin EXCEPT !.calls[Head(pool.shutdownTimers)].state = "resolved",
                                  !.shutdownTimers = Tail(@)])
  /\ UNCHANGED <<config, phase, taskBudget, faultBudget>>

\* The microtask queue has drained with an unhandled rejection: the process
\* ends with exit code 1.
ProcessExits ==
  /\ Alive
  /\ pool.unhandled
  /\ NoReactionPending
  /\ phase' = "exited"
  /\ pool' = Commit(Begin)
  /\ UNCHANGED <<config, taskBudget, faultBudget>>

\* The same with a host listener for 'unhandledRejection': the listener is
\* called and the process runs on.
RejectionReported ==
  /\ Alive
  /\ pool.unhandled
  /\ NoReactionPending
  /\ pool' = Commit([Begin EXCEPT !.unhandled = FALSE])
  /\ UNCHANGED <<config, phase, taskBudget, faultBudget>>

SpecificTypes == {"null"} \cup Types
Apis == {"screenshot", "screencast"}
JobErrors == {"error", "noMessage"}

Next ==
  \/ \E k \in LaunchKinds : LaunchSucceeds(k[1], k[2])
  \/ \E origin \in Continued : LaunchContinues(origin)
  \/ \E k \in LaunchKinds : LaunchFails(k[1], k[2])
  \/ \E b \in BrowserIds(pool) : Crashed(b)
  \/ \E b \in BrowserIds(pool) : Closed(b)
  \/ \E i \in 1 .. Len(pool.calls), b \in BrowserIds(pool) : CloseResolves(i, b)
  \/ \E i \in 1 .. Len(pool.calls) : ClosesSettled(i)
  \/ \E api \in Apis, o \in TaskObjects, p \in Priorities : Enqueue(api, o, p)
  \/ \E id \in TaskIds(pool) : TaskResolves(id)
  \/ \E id \in TaskIds(pool), e \in JobErrors : TaskRejects(id, e)
  \/ \E id \in TaskIds(pool) : TimerFires(id)
  \/ \E id \in TaskIds(pool) : Release(id)
  \/ \E b \in BrowserIds(pool), r \in BOOLEAN, t \in SpecificTypes : KillBrowser(b, r, t)
  \/ ShutdownCall
  \/ \E i \in 1 .. Len(pool.calls), b \in BrowserIds(pool) : CloseFails(i, b)
  \/ ShutdownResolves
  \/ ProcessExits
  \/ RejectionReported

Spec == Init /\ [][Next]_vars

\* What the event loop guarantees: an armed timer fires, a queued promise
\* reaction runs, a launch and a close settle, shutdown's last timer fires.
\* Job functions may never settle; crashes and callers owe nothing.
AllTaskIds == 0 .. MaxTasks
Fairness ==
  /\ \A id \in AllTaskIds : WF_vars(id \in TaskIds(pool) /\ TimerFires(id))
  /\ \A id \in AllTaskIds : WF_vars(id \in TaskIds(pool) /\ Release(id))
  /\ WF_vars(\E k \in LaunchKinds : LaunchSucceeds(k[1], k[2]) \/ LaunchFails(k[1], k[2]))
  /\ WF_vars(\E origin \in Continued : LaunchContinues(origin))
  /\ WF_vars(\E b \in BrowserIds(pool) : Closed(b))
  /\ WF_vars(\E i \in 1 .. Len(pool.calls), b \in BrowserIds(pool) : CloseResolves(i, b))
  /\ WF_vars(\E i \in 1 .. Len(pool.calls) : ClosesSettled(i))
  /\ WF_vars(ShutdownResolves)
  /\ WF_vars(ProcessExits \/ RejectionReported)

InitFair ==
  \/ Construct(<<1, 0, FALSE, 1, 1, MaxFaults>>)
  \/ Construct(<<0, 0, TRUE, 1, 1, 0>>)

FairSpec == InitFair /\ [][Next]_vars /\ Fairness

(***************************************************************************)
(* The PriorityQueue on its own: any sequence of enqueue, dequeue, remove. *)
(***************************************************************************)

MaxQueued == 4   \* enqueues on the queue on its own
QPriorities == {0, 1, 2}

QueueInit ==
  /\ pool_size_default = 0 /\ pool_size_adblock = 0
  /\ adblockExtensionPath = FALSE /\ maxPagesPerBrowser = 1
  /\ taskBudget = 0 /\ faultBudget = 0
  /\ phase = "queue"
  /\ pool = InitPool

QEnqueue(priority) ==
  /\ pool.taskIdCounter < MaxQueued
  /\ pool' = enqueue(pool, "async", priority, [use_adblock |-> FALSE])
  /\ UNCHANGED <<config, phase, taskBudget, faultBudget>>

QDequeue ==
  /\ pool' = dequeue(pool)
  /\ UNCHANGED <<config, phase, taskBudget, faultBudget>>

QRemove(id) ==
  /\ pool' = remove(pool, id)
  /\ UNCHANGED <<config, phase, taskBudget, faultBudget>>

QueueNext ==
  \/ \E p \in QPriorities : QEnqueue(p)
  \/ QDequeue
  \/ \E id \in TaskIds(pool) : QRemove(id)

QueueSpec == QueueInit /\ [][QueueNext]_vars

(***************************************************************************)
(* createScreenshotTask and createScreencastTask: the validation of the    *)
(* options and the task object returned.  Option values are written as the *)
(* callers pass them: "undefined" for a missing option, "null", "empty"    *)
(* for [] and "some" for a non-empty array of selectors.                   *)
(***************************************************************************)

CreateOptions ==
  [url : {"u", "undefined"},
   use_adblock : {"true", "false", "undefined"},
   accept_cookie_banners : {"true", "false", "undefined"},
   cookie_banner_selectors : {"some", "empty", "null", "undefined"}]

\* A destructuring default applies to a missing (undefined) option only.
default(value, dflt) == IF value = "undefined" THEN dflt ELSE value

NotCreated == [outcome |-> "none"]
Threw == [outcome |-> "threw"]

\* Mutant of createScreenshotTask: no validation.
createScreenshotTaskUnchecked(s, o) ==
  [s EXCEPT !.ev.result =
     [outcome |-> "returned", taskFn |-> "async",
      requirements |-> [use_adblock |-> default(o.use_adblock, "false") = "true"],
      originalUrl |-> o.url]]

\* createScreenshotTask: defaults, the cookie-banner test, the task object.
createScreenshotTask(s, o) ==
  LET use_adblock == default(o.use_adblock, "false")
      accept_cookie_banners == default(o.accept_cookie_banners, "false")
      cookie_banner_selectors == default(o.cookie_banner_selectors, "empty")
  IN IF accept_cookie_banners = "true"
        /\ (cookie_banner_selectors = "null" \/ cookie_banner_selectors = "empty")
     THEN [s EXCEPT !.ev.result = Threw]
     ELSE [s EXCEPT !.ev.result =
             [outcome |-> "returned", taskFn |-> "async",
              requirements |-> [use_adblock |-> use_adblock = "true"],
              originalUrl |-> o.url]]

\* createScreencastTask: the same defaults and test (a missing actions list
\* is only logged), the task object.
createScreencastTask(s, o) ==
  LET use_adblock == default(o.use_adblock, "false")
      accept_cookie_banners == default(o.accept_cookie_banners, "false")
      cookie_banner_selectors == default(o.cookie_banner_selectors, "empty")
  IN IF accept_cookie_banners = "true"
        /\ (cookie_banner_selectors = "null" \/ cookie_banner_selectors = "empty")
     THEN [s EXCEPT !.ev.result = Threw]
     ELSE [s EXCEPT !.ev.result =
             [outcome |-> "returned", taskFn |-> "async",
              requirements |-> [use_adblock |-> use_adblock = "true"],
              originalUrl |-> o.url]]

\* The factories are called on pools whose queue is in any state.
CreateInit ==
  /\ pool_size_default = 0 /\ pool_size_adblock = 0
  /\ adblockExtensionPath = FALSE /\ maxPagesPerBrowser = 1
  /\ taskBudget = 0 /\ faultBudget = 0
  /\ phase = "create"
  /\ pool = [InitPool EXCEPT !.ev.result = NotCreated]

Create(api, o) ==
  /\ pool' = IF api = "screenshot" THEN createScreenshotTask(pool, o)
                                   ELSE createScreencastTask(pool, o)
  /\ UNCHANGED <<config, phase, taskBudget, faultBudget>>

CreateNext ==
  \/ \E api \in Apis, o \in CreateOptions : Create(api, o)
  \/ \E p \in QPriorities : QEnqueue(p)
  \/ QDequeue

CreateSpec == CreateInit /\ [][CreateNext]_vars

(***************************************************************************)
(* The task functions built by createScreenshotTask and                    *)
(* createScreencastTask: the retry loop.  One attempt is the body of the   *)
(* try block; it ends by returning the buffer or by throwing an Error of   *)
(* Playwright, of fs or of the function itself.  t is the run of one task  *)
(* function: attempt is the loop variable, errors the errors caught so     *)
(* far, delays the setTimeout delays waited so far.                        *)
(***************************************************************************)

MaxRetries == 3
AttemptErrors == {"e1", "e2"}
UnknownError == "unknown"

\* The argument of setTimeout in the catch block.
backoff(api, attempt) ==
  IF api = "screenshot" THEN 1000 * attempt
  ELSE 1000 * attempt * (IF attempt > 1 THEN 2 ELSE 1)

\* while (attempt <= max_retries) { try { attempt++; ...: the head of the
\* loop, and the throw after the loop.
loopHead(t) ==
  IF t.attempt <= t.max_retries
  THEN [t EXCEPT !.attempt = @ + 1, !.at = "try"]
  ELSE [t EXCEPT !.at = "threw", !.value = UnknownError]

\* taskFn(browser) up to its first await.  context and page are declared
\* outside the loop and keep their values from one attempt to the next.
taskFn(api, max_retries) ==
  loopHead([api |-> api, max_retries |-> max_retries, attempt |-> 0, at |-> "call",
            errors |-> <<>>, delays |-> <<>>, value |-> "",
            context |-> FALSE, page |-> "none", awaits |-> <<>>])

\* The try block ran to its return statement.
tryReturns(t) == [t EXCEPT !.at = "returned", !.value = "buffer"]

\* Where the try block can throw: before context is assigned (the device
\* lookup, browser.newContext), before page is assigned (context.newPage),
\* later with the page open (goto, the selectors, the screenshot, the
\* recording), or behind the close of the page: the screencast closes the
\* page (790) and the context (798) itself before video.path(), readdirSync
\* and readFileSync, and a context.close() of the try block that rejects
\* (442, 798) may have closed the page.
FailStages == {"newContext", "newPage", "page", "pageClosed"}
thrownAt(t, stage) ==
  IF stage = "newContext" THEN t
  ELSE IF stage = "newPage" THEN [t EXCEPT !.context = TRUE]
  ELSE IF stage = "page" THEN [t EXCEPT !.context = TRUE, !.page = "open"]
  ELSE [t EXCEPT !.context = TRUE, !.page = "closed"]

\* The closes the catch block awaits, in order: page.close() of the
\* screencast when page is set and not closed, context.close() when
\* context is set.
cleanup(t) ==
  (IF t.api = "screencast" /\ t.page = "open" THEN <<"page.close">> ELSE <<>>)
    \o (IF t.context THEN <<"context.close">> ELSE <<>>)

\* Mutant of afterCleanup: the error is never rethrown.
afterCleanupAlwaysRetries(t) ==
  [t EXCEPT !.at = "delay", !.delays = Append(@, backoff(t.api, t.attempt))]

\* The catch block behind its awaits: rethrow after the last attempt, else
\* wait.
afterCleanup(t) ==
  IF t.attempt > t.max_retries
  THEN [t EXCEPT !.at = "threw", !.value = t.errors[Len(t.errors)]]
  ELSE [t EXCEPT !.at = "delay", !.delays = Append(@, backoff(t.api, t.attempt))]

\* The catch block up to its first await: log, call the first close.
catchBlock(t, error, stage) ==
  LET t1 == [thrownAt(t, stage) EXCEPT !.errors = Append(@, error)]
      t2 == [t1 EXCEPT !.awaits = cleanup(t1)]
  IN IF t2.awaits = <<>> THEN afterCleanup(t2) ELSE [t2 EXCEPT !.at = "cleanup"]

\* An awaited close settles, resolved or rejected (a rejection is swallowed
\* by its .catch): the catch block goes on to the next close or to its end.
\* The code assigns nothing; isClosed is what page.isClosed() answers from
\* then on.  A page.close() that resolved has closed the page; one that
\* rejected may have left it open; a context.close() closes the pages of
\* its own context, to which the page need not belong.
closeSettles(t, rejected, isClosed) ==
  LET closedNow == IF Head(t.awaits) = "page.close" /\ ~rejected THEN TRUE ELSE isClosed
      t1 == [t EXCEPT !.awaits = Tail(@),
                      !.page = IF t.page = "open" /\ closedNow THEN "closed" ELSE @]
  IN IF t1.awaits = <<>> THEN afterCleanup(t1) ELSE t1

RetryInit ==
  /\ pool_size_default = 0 /\ pool_size_adblock = 0
  /\ adblockExtensionPath = FALSE /\ maxPagesPerBrowser = 1
  /\ taskBudget = 0 /\ faultBudget = 0
  /\ phase = "retry"
  /\ \E api \in Apis, max_retries \in 0 .. MaxRetries :
       pool = [InitPool EXCEPT !.ev.result = taskFn(api, max_retries)]

AttemptReturns ==
  /\ pool.ev.result.at = "try"
  /\ pool' = [pool EXCEPT !.ev.result = tryReturns(@)]
  /\ UNCHANGED <<config, phase, taskBudget, faultBudget>>

AttemptThrows(error, stage) ==
  /\ pool.ev.result.at = "try"
  /\ pool' = [pool EXCEPT !.ev.result = catchBlock(@, error, stage)]
  /\ UNCHANGED <<config, phase, taskBudget, faultBudget>>

\* A close awaited by the catch block settles; it may also never do so.
CleanupSettles ==
  /\ pool.ev.result.at = "cleanup"
  /\ \E rejected \in BOOLEAN, isClosed \in BOOLEAN :
       pool' = [pool EXCEPT !.ev.result = closeSettles(@, rejected, isClosed)]
  /\ UNCHANGED <<config, phase, taskBudget, faultBudget>>

DelayElapses ==
  /\ pool.ev.result.at = "delay"
  /\ pool' = [pool EXCEPT !.ev.result = loopHead(@)]
  /\ UNCHANGED <<config, phase, taskBudget, faultBudget>>

RetryNext ==
  \/ AttemptReturns
  \/ \E error \in AttemptErrors, stage \in FailStages : AttemptThrows(error, stage)
  \/ CleanupSettles
  \/ DelayElapses

RetrySpec == RetryInit /\ [][RetryNext]_vars

\* The closes of Playwright settle and the timers of the backoff fire.
RetryFairSpec == RetrySpec /\ WF_vars(CleanupSettles) /\ WF_vars(DelayElapses)

(***************************************************************************)
(* Claims                                                                  *)
(***************************************************************************)

Constructed == phase = "ready"
Held == {"racing", "reported", "threw"}   \* dispatched, worker not yet released
Holders(b) == {id \in TaskIds(pool) : J(pool, id).worker = b /\ J(pool, id).run \in Held}
Settled(id) == J(pool, id).prom # "pending"
LaunchesInFlight == {k \in LaunchKinds : pool.launches[k] > 0}

\* C1: in every state of a constructed pool the roster holds at most
\* pool_size_default default browsers and at most pool_size_adblock adblock
\* browsers (launches in flight not counted).
C1_CapacityInvariant ==
  Constructed => \A type \in Types : countOfType(pool, type) <= maxOfType(type)

\* C2: a browser held by a dispatched job that its runner has not released
\* is held by that job alone, and _findSuitableBrowser never returns it, for
\* either capability.
C2_NoDoubleDispatch ==
  /\ \A b \in BrowserIds(pool) : Cardinality(Holders(b)) <= 1
  /\ \A u \in BOOLEAN :
       LET b == findSuitableBrowser(pool, [use_adblock |-> u])
       IN b # NoBrowser => Holders(b) = {} /\ ~B(pool, b).busy

\* C2 witness: a job waits at the head of the queue for the class of a roster
\* browser that another job holds.
C2_Witness ==
  \E b \in Roster(pool) :
    /\ Holders(b) # {}
    /\ ~isEmpty(pool)
    /\ requiredTypeOf(pool.items[1].requirements) = B(pool, b).type

\* C3: the promise of a dispatched job is settled exactly once: never more
\* than once, and once its runner has finished (then or catch, then finally)
\* it has been settled, by the outcome that won the race.
OutcomeOf(racer) ==
  CASE racer = "success" -> "resolved"
    [] racer = "failure" -> "rejectedError"
    [] racer = "timeout" -> "rejectedTimeout"
    [] OTHER -> "pending"
C3_SettledExactlyOnce ==
  \A id \in TaskIds(pool) :
    /\ J(pool, id).settles <= 1
    /\ J(pool, id).run \in {"reported", "done"} =>
         /\ J(pool, id).settles = 1
         /\ J(pool, id).prom = OutcomeOf(J(pool, id).first)

\* C4: every admitted job's promise is eventually settled.
Admitted(id) == id \in TaskIds(pool)
C4_EventuallySettled ==
  \A id \in AllTaskIds : [](Admitted(id) => <>(Admitted(id) /\ Settled(id)))

\* C5: the pool never sits with a queued head job, an idle eligible browser
\* for it, and nothing pending that would run _processQueue again (no job
\* running, no launch in flight, no browser closing).
C5_NoStuckHead ==
  ~ /\ Constructed
    /\ ~pool.shuttingDown
    /\ ~isEmpty(pool)
    /\ findSuitableBrowser(pool, pool.items[1].requirements) # NoBrowser
    /\ \A id \in TaskIds(pool) : J(pool, id).run \notin {"racing", "reported"}
    /\ LaunchesInFlight = {}
    /\ \A b \in BrowserIds(pool) : B(pool, b).conn # "closing"

\* C6: after every dispatch the browser is eventually released (busy reset,
\* pagesOpen decremented), exactly once, however the job function behaves.
Dispatched(id) == id \in TaskIds(pool) /\ J(pool, id).worker # NoBrowser
ReleasedOnce(id) == Dispatched(id) /\ J(pool, id).releases = 1
ReleasedTwice(id) == Dispatched(id) /\ J(pool, id).releases > 1
C6_WorkerReleased ==
  \A id \in AllTaskIds :
    /\ [](~ReleasedTwice(id))
    /\ [](Dispatched(id) => <>ReleasedOnce(id))

\* C7: once a call of shutdown() has resolved the queue is empty
\* (getStats().queuedTasks is 0) in every later state, and every job that
\* was queued when shutdown() was called has been rejected with the
\* cancellation error and was never dispatched.
Calls == 1 .. Len(pool.calls)
Resolved(i) == pool.calls[i].state = "resolved"
C7_DrainQueue ==
  \A i \in Calls :
    Resolved(i) =>
      /\ getStats(pool).queuedTasks = 0
      /\ \A id \in pool.calls[i].queued :
           /\ J(pool, id).prom = "rejectedShutdown"
           /\ J(pool, id).settles = 1
           /\ J(pool, id).worker = NoBrowser

\* C7 witness: a call of shutdown() has resolved and had found a job in the
\* queue.
C7_Witness ==
  \E i \in Calls : Resolved(i) /\ pool.calls[i].queued # {}

\* C8: once shutdown() has resolved getStats().totalBrowsers is 0, and stays 0.
C8_DrainRoster ==
  \A i \in Calls : Resolved(i) => getStats(pool).totalBrowsers = 0

\* C9 as claimed: once shuttingDown is set, every enqueue call returns the
\* shutting-down rejection.
C9_AlwaysShuttingDownError ==
  pool.shuttingDown /\ pool.ev.result # "" => pool.ev.result = "shuttingDown"

\* C9 amended: once shuttingDown is set, every enqueue call returns a rejected
\* promise, the shutting-down error for a well-formed task object and the
\* invalid-task-object error for a malformed one; queue, job-id counter and
\* promises are unchanged and no pass runs.
C9_RejectedAfterShutdown ==
  /\ [][/\ pool.shuttingDown
        /\ \E api \in Apis, o \in TaskObjects, p \in Priorities : Enqueue(api, o, p)
        =>
          /\ pool'.ev.result \in {"shuttingDown", "invalidTaskObject"}
          /\ pool'.items = pool.items
          /\ pool'.taskIdCounter = pool.taskIdCounter
          /\ pool'.jobs = pool.jobs]_vars
  /\ [](pool.shuttingDown =>
          \A o \in TaskObjects, p \in Priorities :
            LET r1 == queueScreenshotTask(Begin, o, p)
                r2 == queueScreencastTask(Begin, o, p)
                expected == IF o.wellFormed THEN "shuttingDown" ELSE "invalidTaskObject"
            IN /\ r1.ev.result = expected /\ r1.ev.passes = 0
               /\ r2.ev.result = expected /\ r2.ev.passes = 0)

\* C9 witness: an enqueue was rejected with the shutting-down error.
C9_Witness ==
  pool.shuttingDown /\ pool.ev.result = "shuttingDown"

\* C10: no job is ever queued whose capability class has cap 0.
C10_NoUnservableJobQueued ==
  \A i \in 1 .. Len(pool.items) :
    maxOfType(requiredTypeOf(pool.items[i].requirements)) > 0

\* C11: on a pool as getBrowserPool returned it (ready, not shutting down,
\* no job enqueued yet) whose roster holds all N browsers of class c,
\* connected and idle, n enqueues of class c at one priority with nothing
\* happening in between, for every n up to N + MaxExtra, dispatch exactly
\* min(n, N) of the accepted jobs, one per enqueue-triggered pass, leave the
\* others in the queue (getStats().queuedTasks), start no launch and leave
\* min(n, N) browsers of class c busy.
Min(a, b) == IF a < b THEN a ELSE b
FreshlyConstructed ==
  Constructed /\ ~pool.shuttingDown /\ pool.taskIdCounter = 0
AllWorkersIdle(c) ==
  /\ countOfType(pool, c) = maxOfType(c)
  /\ \A i \in RosterOfType(pool, c) :
       LET b == pool.browsers[i]
       IN B(pool, b).conn = "connected" /\ ~B(pool, b).busy /\ B(pool, b).pagesOpen = 0
RECURSIVE enqueueJobs(_, _, _, _)
enqueueJobs(s, o, priority, n) ==
  IF n = 0 THEN s
  ELSE queueScreenshotTask(enqueueJobs(s, o, priority, n - 1), o, priority)
BusyOfType(s, c) ==
  {i \in RosterOfType(s, c) : B(s, s.browsers[i]).busy}
C11_ExactlyCapDispatched ==
  \A c \in Types :
    FreshlyConstructed /\ AllWorkersIdle(c) =>
      \A o \in TaskObjects, p \in Priorities, n \in 0 .. maxOfType(c) + MaxExtra :
        o.wellFormed /\ requiredTypeOf(o.requirements) = c =>
          LET N == maxOfType(c)
              r == enqueueJobs(Begin, o, p, n)
              accepted == r.taskIdCounter
              dispatched == {id \in TaskIds(r) : J(r, id).worker # NoBrowser}
          IN /\ accepted \in {0, n}
             /\ Cardinality(dispatched) = Min(accepted, N)
             /\ r.ev.dispatched = Min(accepted, N)
             /\ r.ev.passes = accepted
             /\ getStats(r).queuedTasks = accepted - Min(accepted, N)
             /\ Cardinality(BusyOfType(r, c)) = Min(accepted, N)
             /\ countOfType(r, c) = N
             /\ r.ev.launched = 0
             /\ r.launches = pool.launches

\* C11 witness: a class with cap 1 whose first browser was lost and replaced
\* before the pool was used: of two jobs enqueued now one runs and one waits.
C11_Witness ==
  \E c \in Types :
    /\ FreshlyConstructed /\ AllWorkersIdle(c)
    /\ maxOfType(c) = 1
    /\ \E b \in BrowserIds(pool) : B(pool, b).conn = "gone" /\ B(pool, b).type = c
    /\ \E o \in TaskObjects :
         /\ o.wellFormed /\ requiredTypeOf(o.requirements) = c
         /\ Len(enqueueJobs(Begin, o, 0, 2).items) = 1
         /\ Cardinality(BusyOfType(enqueueJobs(Begin, o, 0, 2), c)) = 1

\* C12: when the caller's promise has been rejected with the job's error or
\* the timeout error, the runner has already released the browser: busy is
\* false and pagesOpen is back, so getStats() shows the browser idle.
RejectedByRunner(id) ==
  id \in TaskIds(pool) /\ J(pool, id).prom \in {"rejectedError", "rejectedTimeout"}
C12_ReleaseBeforeReport ==
  \A id \in TaskIds(pool) :
    RejectedByRunner(id) =>
      /\ J(pool, id).releases = 1
      /\ J(pool, id).run = "reported" => ~B(pool, J(pool, id).worker).busy

\* C13: when a connected roster browser of a class that is at its cap (no
\* launch in flight, pool not shutting down) disconnects unexpectedly, the
\* disconnect handler leaves the class one below its cap and starts exactly
\* the launches that bring it back to the cap when they succeed: the count
\* neither stays below the cap nor ends above it.
LaunchesOfType(s, c) ==
  s.launches[<<c, "warmup">>] + s.launches[<<c, "ondemand">>]
    + s.launches[<<c, "replenish">>] + s.launches[<<c, "kill">>]
C13_ReplenishToCap ==
  \A b \in Roster(pool) :
    LET c == B(pool, b).type
        s1 == onDisconnected([Begin EXCEPT !.bobj[b + 1].conn = "gone"], b)
    IN /\ Constructed /\ ~pool.shuttingDown
       /\ B(pool, b).conn = "connected"
       /\ countOfType(pool, c) = maxOfType(c)
       /\ LaunchesInFlight = {}
       => /\ countOfType(s1, c) = maxOfType(c) - 1
          /\ countOfType(s1, c) + LaunchesOfType(s1, c) = maxOfType(c)

\* C14: killBrowser(b, replenish, t) on a connected roster browser removes it
\* from the roster and closes it, and starts a replacement launch exactly
\* when replenish is true, the pool is not shutting down and the class to
\* replenish is under its cap; after killBrowser(b, false, t) the disconnect
\* observer that runs when the close completes starts no replacement either.
HandedOut(b) == \E id \in TaskIds(pool) : J(pool, id).worker = b
C14_KillWithoutReplenish ==
  \A b \in Roster(pool), replenish \in BOOLEAN, t \in SpecificTypes :
    Constructed /\ HandedOut(b) /\ B(pool, b).conn = "connected" =>
      LET type == B(pool, b).type
          typeToReplenish == IF t # "null" THEN t ELSE type
          s1 == killBrowser(Begin, b, replenish, t)
          s2 == onDisconnected([s1 EXCEPT !.ev = NoEv, !.bobj[b + 1].conn = "gone"], b)
      IN /\ b \notin Roster(s1)
         /\ B(s1, b).conn = "closing"
         /\ s1.ev.launched =
              (IF replenish /\ ~pool.shuttingDown
                  /\ countOfType(s1, typeToReplenish) < maxOfType(typeToReplenish)
               THEN 1 ELSE 0)
         /\ ~replenish =>
              s2.launches[<<type, "replenish">>] = s1.launches[<<type, "replenish">>]

\* C15: when an initial launch has failed (getBrowserPool rejects) and every
\* initial launch and every close has settled, no browser is left: the
\* roster is empty and every browser that was launched is closed.
WarmupFailed == phase = "failed"
Quiet ==
  /\ LaunchesInFlight = {}
  /\ \A b \in BrowserIds(pool) : B(pool, b).conn # "closing"
C15_WarmupFailureLeavesNothing ==
  WarmupFailed /\ Quiet =>
    /\ getStats(pool).totalBrowsers = 0
    /\ \A b \in BrowserIds(pool) : ~isConnected(pool, b)

\* C16: when an on-demand launch settles, a scheduler pass is run, on failure
\* as on success; a failed on-demand launch leaves the roster, the job-id
\* counter and every job promise as they were and loses no queued job.
QueuedIds(s) == {s.items[i].id : i \in 1 .. Len(s.items)}
LaunchSettles(type, origin) == [Begin EXCEPT !.launches[<<type, origin>>] = @ - 1]
C16_PassAfterOnDemandLaunch ==
  \A type \in Types :
    pool.launches[<<type, "ondemand">>] > 0 =>
      LET s0 == LaunchSettles(type, "ondemand")
          ok == thenOfLaunch(launchResolved(s0, type), "ondemand")
          ko == catchOfLaunch(s0, "ondemand")
      IN /\ ok.ev.passes = 1
         /\ ko.ev.passes = 1
         /\ ko.browsers = pool.browsers
         /\ ko.taskIdCounter = pool.taskIdCounter
         /\ \A id \in TaskIds(pool) : J(ko, id).prom = J(pool, id).prom
         /\ \A id \in QueuedIds(pool) :
              id \in QueuedIds(ko) \/ J(ko, id).worker # NoBrowser

\* C17: while the pool is not shutting down, every roster mutation is followed
\* by a scheduler pass in the handler that makes it: a browser added by an
\* on-demand launch, by a crash replacement or by a kill replacement, and a
\* browser removed by a disconnect or by killBrowser.
PassAfterAdd(type, origin) ==
  pool.launches[<<type, origin>>] > 0 =>
    thenOfLaunch(launchResolved(LaunchSettles(type, origin), type), origin).ev.passes >= 1
C17_PassAfterRosterMutation ==
  ~pool.shuttingDown /\ Constructed =>
    /\ \A type \in Types : PassAfterAdd(type, "ondemand")
    /\ \A type \in Types : PassAfterAdd(type, "replenish")
    /\ \A type \in Types : PassAfterAdd(type, "kill")
    /\ \A b \in Roster(pool) :
         B(pool, b).conn = "connected" =>
           onDisconnected([Begin EXCEPT !.bobj[b + 1].conn = "gone"], b).ev.passes >= 1
    /\ \A b \in Roster(pool), replenish \in BOOLEAN, t \in SpecificTypes :
         HandedOut(b) => killBrowser(Begin, b, replenish, t).ev.passes >= 1

\* C18: the queue is ordered by priority descending and, among equal
\* priorities, by ascending id; every queued job appears exactly once and
\* carries an id that enqueue has handed out.
Before(a, b) ==
  a.priority > b.priority \/ (a.priority = b.priority /\ a.id < b.id)
C18_QueueOrdered ==
  /\ \A i, j \in 1 .. Len(pool.items) : i < j => Before(pool.items[i], pool.items[j])
  /\ \A i, j \in 1 .. Len(pool.items) : i # j => pool.items[i].id # pool.items[j].id
  /\ \A i \in 1 .. Len(pool.items) : pool.items[i].id \in TaskIds(pool)

\* C18 witness: after an enqueue behind two equal-priority jobs that jumped
\* the queue, and a dequeue or remove, three jobs are queued: the younger,
\* higher-priority one ahead of two of equal priority.
C18_Witness ==
  /\ Len(pool.items) = 3 /\ pool.taskIdCounter = 4
  /\ pool.items[1].id > pool.items[3].id
  /\ pool.items[2].priority = pool.items[3].priority

\* C19: the job that a handler has just dispatched precedes every job of its
\* class that is still queued: none of them has a higher priority, or an
\* equal priority and a smaller id.
SameClass(a, b) == requiredTypeOf(a.requirements) = requiredTypeOf(b.requirements)
JustDispatched == {pool.ev.item[k] : k \in 1 .. Len(pool.ev.item)}
C19_DispatchOrder ==
  \A d \in JustDispatched :
    \A i \in 1 .. Len(pool.items) :
      SameClass(d, pool.items[i]) => Before(d, pool.items[i])

\* C19 witness: a job was dispatched past an older queued job of its class
\* that has a lower priority.
C19_Witness ==
  \E d \in JustDispatched :
    \E i \in 1 .. Len(pool.items) :
      /\ SameClass(d, pool.items[i])
      /\ d.priority > pool.items[i].priority
      /\ d.id > pool.items[i].id

\* C20 as claimed: when the head job has no eligible browser and a job behind
\* it, of lower priority, has an idle eligible one, a pass dispatches that
\* job.
HeadBlocked ==
  /\ Constructed /\ ~pool.shuttingDown /\ ~isEmpty(pool)
  /\ findSuitableBrowser(pool, pool.items[1].requirements) = NoBrowser
Servable(i) ==
  /\ pool.items[i].priority < pool.items[1].priority
  /\ findSuitableBrowser(pool, pool.items[i].requirements) # NoBrowser
C20_LowerPriorityNotBlocked ==
  \A i \in 1 .. Len(pool.items) :
    HeadBlocked /\ Servable(i) =>
      pool.items[i].id \in QueuedIds(pool) \ QueuedIds(processQueue(Begin))

\* C20 amended: only the head of the queue is matched.  The job a handler has
\* just dispatched precedes every job still queued, whatever their classes,
\* and while the head job has no eligible browser a pass dispatches nothing,
\* also when a job behind it has an idle eligible browser.
C20_OnlyHeadMatched ==
  /\ \A d \in JustDispatched :
       \A i \in 1 .. Len(pool.items) : Before(d, pool.items[i])
  /\ HeadBlocked =>
       LET s == processQueue(Begin)
       IN s.ev.dispatched = 0 /\ QueuedIds(s) = QueuedIds(pool)

\* C20 witness: the head job has no eligible browser while a lower-priority
\* job behind it has an idle eligible one.
C20_Witness ==
  \E i \in 1 .. Len(pool.items) : HeadBlocked /\ Servable(i)

\* C21: a construction with pool_size_adblock > 0 and no adblockExtensionPath
\* has thrown the configuration error: no pool object exists, no launch was
\* started, no browser was registered and the roster is empty, for ever.
ConfigInvalid == pool_size_adblock > 0 /\ ~adblockExtensionPath
C21_ConfigErrorBeforeLaunch ==
  ConfigInvalid =>
    /\ phase = "configError"
    /\ LaunchesInFlight = {}
    /\ pool.browserIdCounter = 0
    /\ pool.browsers = <<>>
    /\ pool = InitPool

\* C21 witness: such a construction, with a default class that has a cap.
C21_Witness ==
  ConfigInvalid /\ pool_size_default > 0 /\ phase = "configError"

\* C22: getStats() is consistent (busy + idle = total, default + adblock =
\* total), and a roster browser is busy only while a job dispatched to it is
\* still running and has not been settled: no browser is busy after its job
\* ended, on any path.
RunningUnsettledOn(b) ==
  {id \in TaskIds(pool) :
     /\ J(pool, id).worker = b
     /\ J(pool, id).prom = "pending"
     /\ J(pool, id).fn = "running"}
C22_StatsConsistent ==
  /\ getStats(pool).busyBrowsers + getStats(pool).idleBrowsers
       = getStats(pool).totalBrowsers
  /\ getStats(pool).defaultBrowsers + getStats(pool).adblockBrowsers
       = getStats(pool).totalBrowsers
  /\ \A b \in Roster(pool) : B(pool, b).busy => RunningUnsettledOn(b) # {}

\* C23: a call of shutdown() calls close() on every browser that is in the
\* roster when it is made and awaits every one of those closes; it has
\* armed its timer or resolved only when none of them is pending, also when
\* closes failed; a browser whose close has settled, by the disconnect or by
\* a failure, is out of the roster, and the catch of a failed close removes
\* the browser and lets the call go on.
ClosePending(i, b) == b \in pool.calls[i].wait
LatestCall(s) == s.calls[Len(s.calls)]
C23_ShutdownClosesAll ==
  /\ Constructed =>
       LET s == shutdown(Begin)
       IN /\ LatestCall(s).closing = Roster(pool)
          /\ LatestCall(s).wait = Roster(pool)
          /\ LatestCall(s).state = "closing"
          /\ \A b \in Roster(pool) : B(s, b).conn = "closing"
  /\ \A i \in Calls :
       /\ pool.calls[i].wait \subseteq pool.calls[i].closing
       /\ pool.calls[i].state \in {"timer", "resolved"} => pool.calls[i].wait = {}
       /\ (pool.calls[i].closing \ pool.calls[i].wait) \cap Roster(pool) = {}
       /\ \A b \in BrowserIds(pool) :
            ClosePending(i, b) =>
              /\ B(pool, b).conn \in {"closing", "gone"}
              /\ b \notin Roster(closeFailed(Begin, i, b))
              /\ closeFailed(Begin, i, b).calls[i].wait = pool.calls[i].wait \ {b}

\* C23 witness: a call of shutdown() has resolved although the close of a
\* browser it awaited failed: the browser never disconnected, was not
\* killed, and is out of the roster.
C23_Witness ==
  \E i \in Calls :
    /\ Resolved(i)
    /\ \E b \in pool.calls[i].closing :
         B(pool, b).conn = "closing" /\ ~HandedOut(b) /\ b \notin Roster(pool)

\* C24: the browser a job was just dispatched to is in the roster, is
\* connected, has the class the job requires, holds this job only and has
\* pagesOpen within maxPagesPerBrowser; and the browser a pass would pick
\* now for the head job is an eligible roster browser: not busy, pagesOpen
\* below maxPagesPerBrowser, connected, of the required class.
WorkerOf(item) == J(pool, item.id).worker
C24_DispatchedToEligible ==
  /\ \A d \in JustDispatched :
       LET w == WorkerOf(d)
       IN /\ w \in Roster(pool)
          /\ isConnected(pool, w)
          /\ B(pool, w).type = requiredTypeOf(d.requirements)
          /\ Holders(w) = {d.id}
          /\ B(pool, w).busy
          /\ B(pool, w).pagesOpen = 1
          /\ B(pool, w).pagesOpen <= maxPagesPerBrowser
  /\ ~isEmpty(pool) /\ ~pool.shuttingDown =>
       LET head == pool.items[1]
           s == processQueue(Begin)
       IN s.ev.dispatched = 1 =>
            LET w == J(s, head.id).worker
            IN /\ w \in Roster(pool)
               /\ ~B(pool, w).busy
               /\ B(pool, w).pagesOpen < maxPagesPerBrowser
               /\ isConnected(pool, w)
               /\ B(pool, w).type = requiredTypeOf(head.requirements)

\* C24 witness: in a pool with browsers of both classes an adblock job was
\* just dispatched.
C24_Witness ==
  /\ countOfType(pool, "default") > 0
  /\ \E d \in JustDispatched :
       d.requirements.use_adblock /\ WorkerOf(d) \in Roster(pool)

\* C25: job ids and browser ids are unique and strictly increasing.  The ids
\* issued so far are 0 .. counter - 1, one job and one browser object per id;
\* queued ids are distinct, roster ids are distinct and ascending in launch
\* order; a counter never goes back, every step issues at most one id of
\* each kind, and an id newly queued or newly in the roster is the old
\* counter, greater than every id issued before, whatever was dispatched,
\* drained or removed meanwhile.
IdsConsistent ==
  /\ Len(pool.jobs) = pool.taskIdCounter
  /\ Len(pool.bobj) = pool.browserIdCounter
  /\ \A b \in BrowserIds(pool) : B(pool, b).id = b
  /\ \A i, j \in 1 .. Len(pool.items) :
       i # j => pool.items[i].id # pool.items[j].id
  /\ QueuedIds(pool) \subseteq TaskIds(pool)
  /\ \A i, j \in 1 .. Len(pool.browsers) :
       i < j => pool.browsers[i] < pool.browsers[j]
  /\ Roster(pool) \subseteq BrowserIds(pool)
IdsIncrease ==
  /\ pool'.taskIdCounter \in {pool.taskIdCounter, pool.taskIdCounter + 1}
  /\ pool'.browserIdCounter \in {pool.browserIdCounter, pool.browserIdCounter + 1}
  /\ QueuedIds(pool') \ QueuedIds(pool) \subseteq
       (IF pool'.taskIdCounter > pool.taskIdCounter THEN {pool.taskIdCounter} ELSE {})
  /\ Roster(pool') \ Roster(pool) \subseteq
       (IF pool'.browserIdCounter > pool.browserIdCounter
        THEN {pool.browserIdCounter} ELSE {})
C25_IdsUniqueIncreasing ==
  /\ []IdsConsistent
  /\ [][IdsIncrease]_vars

\* C25 witness: a second job was accepted after the first had left the queue,
\* and a second browser registered after the first had left the roster.
C25_Witness ==
  /\ pool.taskIdCounter = 2 /\ QueuedIds(pool) = {1}
  /\ pool.browserIdCounter = 2 /\ Roster(pool) = {1}

\* C26: createScreenshotTask and createScreencastTask throw exactly when
\* accept_cookie_banners is true and cookie_banner_selectors is missing, null
\* or empty; otherwise they return an object with taskFn, requirements
\* {use_adblock} and originalUrl; in both cases the pool is left as it was.
MustFail(o) ==
  /\ o.accept_cookie_banners = "true"
  /\ o.cookie_banner_selectors \in {"undefined", "null", "empty"}
Returned(r, o) ==
  /\ r.outcome = "returned"
  /\ DOMAIN r = {"outcome", "taskFn", "requirements", "originalUrl"}
  /\ r.taskFn \in TaskKinds
  /\ r.requirements = [use_adblock |-> o.use_adblock = "true"]
  /\ r.originalUrl = o.url
C26_CreateTaskValidates ==
  \A o \in CreateOptions :
    LET shot == createScreenshotTask(pool, o)
        cast == createScreencastTask(pool, o)
    IN /\ (shot.ev.result = Threw) <=> MustFail(o)
       /\ (cast.ev.result = Threw) <=> MustFail(o)
       /\ ~MustFail(o) => Returned(shot.ev.result, o) /\ Returned(cast.ev.result, o)
       /\ [shot EXCEPT !.ev.result = pool.ev.result] = pool
       /\ [cast EXCEPT !.ev.result = pool.ev.result] = pool

\* C26 witness: a factory has thrown while jobs were queued.
C26_Witness ==
  pool.ev.result = Threw /\ Len(pool.items) = 2

\* C27: one invocation of _processQueue dispatches at most one job and starts
\* at most one launch, never both, and takes a job off the queue only when it
\* dispatches that job.  The pass is run on every state a handler hands it.
AfterEnqueue(task, priority, requirements) ==
  [enqueue(Begin, task, priority, requirements) EXCEPT !.jobs = Append(@, NewJob)]
EnqueueInputs ==
  {r \in [use_adblock : BOOLEAN] :
     /\ ~pool.shuttingDown
     /\ r.use_adblock => adblockExtensionPath /\ pool_size_adblock > 0}
\* The states the handlers enabled now hand to _processQueue: an accepted
\* enqueue (src 335), the release of a runner (245), the disconnect handler
\* of a pool that is not shutting down (140), and the continuation of an
\* on-demand or a kill replacement launch that has landed (262, 920), which
\* runs on the pool as the handlers in between have left it.
PassAfterEnqueue ==
  IF phase # "ready" THEN {}
  ELSE {AfterEnqueue(task, priority, requirements) :
          task \in TaskKinds, priority \in Priorities, requirements \in EnqueueInputs}
PassAfterRelease ==
  {release(Begin, id) : id \in {i \in TaskIds(pool) : J(pool, i).run = "reported"}}
PassAfterDisconnect ==
  IF pool.shuttingDown \/ ~TurnOver THEN {}
  ELSE {removeAndReplenish([Begin EXCEPT !.bobj[b + 1].conn = "gone"], b) :
          b \in {c \in BrowserIds(pool) : B(pool, c).conn # "gone"}}
PassAfterLaunch ==
  {[Begin EXCEPT !.landed[origin] = @ - 1] :
     origin \in {o \in Continued : pool.landed[o] > 0}}
PassInputs ==
  IF ~Alive THEN {}
  ELSE PassAfterEnqueue \cup PassAfterRelease \cup PassAfterDisconnect \cup PassAfterLaunch
DispatchedBy(x, r) ==
  {id \in TaskIds(x) : J(x, id).worker = NoBrowser /\ J(r, id).worker # NoBrowser}
LaunchedBy(x, r) == {k \in LaunchKinds : r.launches[k] # x.launches[k]}
OnePass(x) ==
  LET r == processQueue(x)
  IN /\ Cardinality(DispatchedBy(x, r)) <= 1
     /\ Cardinality(LaunchedBy(x, r)) <= 1
     /\ \A k \in LaunchedBy(x, r) : r.launches[k] = x.launches[k] + 1
     /\ DispatchedBy(x, r) = {} \/ LaunchedBy(x, r) = {}
     /\ QueuedIds(x) \ QueuedIds(r) = DispatchedBy(x, r)
     /\ QueuedIds(r) \subseteq QueuedIds(x)
C27_OneDispatchOrOneLaunch == \A x \in PassInputs : OnePass(x)

\* C27 witness: a pass dispatches one job and leaves another one queued.
C27_Witness ==
  \E x \in PassInputs :
    DispatchedBy(x, processQueue(x)) # {} /\ QueuedIds(processQueue(x)) # {}

\* C28: the pass is idempotent: two invocations of _processQueue in succession
\* leave the pool (queue, roster, busy flags, jobs, launches in flight) as one
\* invocation does.
SamePool(r1, r2) == [r1 EXCEPT !.ev = NoEv] = [r2 EXCEPT !.ev = NoEv]
C28_PassIdempotent ==
  \A x \in PassInputs : SamePool(processQueue(processQueue(x)), processQueue(x))

\* C29: a pass that finds no eligible browser for the head job while the
\* roster holds at least the cap of the head's type changes nothing: queue,
\* roster, busy flags, counters, job promises and launches in flight are as
\* before.
Backpressure(x) ==
  /\ x.items # <<>>
  /\ LET type == IF x.items[1].requirements.use_adblock THEN "adblock" ELSE "default"
         ofType == {b \in Roster(x) : B(x, b).type = type}
         cap == IF type = "adblock" THEN pool_size_adblock ELSE pool_size_default
     IN /\ \A b \in ofType :
             \/ B(x, b).busy
             \/ B(x, b).pagesOpen >= maxPagesPerBrowser
             \/ B(x, b).conn = "gone"
        /\ Cardinality(ofType) >= cap
C29_BackpressureChangesNothing ==
  \A x \in PassInputs : Backpressure(x) => SamePool(processQueue(x), x)

\* C29 witness: a job has just been enqueued behind a queued job of its type
\* whose only browser is busy, in a pool that is not shutting down.
C29_Witness ==
  /\ ~pool.shuttingDown
  /\ Len(pool.items) = 1
  /\ \E x \in PassAfterEnqueue : Len(x.items) = 2 /\ Backpressure(x)
  /\ \E b \in Roster(pool) : B(pool, b).busy

\* C30: on every browser the job functions started and not yet finished,
\* those still running after their dispatch timed out included, number at
\* most maxPagesPerBrowser.
StartedNotFinishedOn(b) ==
  {id \in TaskIds(pool) : J(pool, id).worker = b /\ J(pool, id).fn = "running"}
C30_ExclusiveOwnership ==
  \A b \in BrowserIds(pool) : Cardinality(StartedNotFinishedOn(b)) <= maxPagesPerBrowser

\* C31: when the function of a dispatched job rejects while the race is open,
\* the .catch handler rejects the caller's promise with that value, whatever
\* the value (an Error, or a value without a message string).
C31_RejectedWithJobError ==
  \A id \in TaskIds(pool) :
    J(pool, id).run = "racing" /\ J(pool, id).fn = "running" =>
      \A error \in JobErrors :
        LET s0 == [Begin EXCEPT !.jobs[id + 1].fn = "settled"]
            r == catchHandler(Won(s0, id, "failure"), id, error)
        IN J(r, id).prom = "rejectedError" /\ J(r, id).settles = 1

\* The run of the task function and what holds in each of its states.
Run == pool.ev.result
RetryBounded ==
  /\ Run.attempt <= Run.max_retries + 1
  /\ Len(Run.errors) <= Run.attempt
  /\ Run.at = "returned" =>
       Run.value = "buffer" /\ Len(Run.errors) = Run.attempt - 1
  /\ Run.at = "threw" =>
       /\ Run.attempt = Run.max_retries + 1
       /\ Len(Run.errors) = Run.max_retries + 1
       /\ Run.value = Run.errors[Len(Run.errors)]
  /\ Len(Run.errors) = Run.max_retries + 1 => Run.at \in {"cleanup", "threw"}
  /\ Run.at = "cleanup" <=> Run.awaits # <<>>

C33_LinearBackoff ==
  /\ \A k \in 1 .. Len(Run.delays) : Run.delays[k] = k * 1000
  /\ Len(Run.delays) <= Run.max_retries
  /\ Run.at = "threw" => Len(Run.delays) = Len(Run.errors) - 1

\* C34: the handler of a disconnect and killBrowser take the browser out of
\* the roster and may start a replacement launch; the disconnect handler may
\* run a scheduler pass.  Apart from what that pass dispatches they settle no
\* job promise, leave the queue and its order, the busy flags and counters
\* of all other browsers and the id counters as they were.
OthersUntouched(r, b, except) ==
  \A c \in BrowserIds(pool) \ ({b} \cup except) : B(r, c) = B(pool, c)
PromisesUntouched(r) ==
  \A id \in TaskIds(pool) :
    J(r, id).prom = J(pool, id).prom /\ J(r, id).settles = J(pool, id).settles
Contained(r, b) ==
  /\ r.browsers = SelectSeq(pool.browsers, LAMBDA c : c # b)
  /\ PromisesUntouched(r)
  /\ r.taskIdCounter = pool.taskIdCounter
  /\ r.browserIdCounter = pool.browserIdCounter
  /\ r.shuttingDown = pool.shuttingDown
C34_CrashContained ==
  /\ \A b \in BrowserIds(pool) :
       B(pool, b).conn # "gone" =>
         LET r == onDisconnected([Begin EXCEPT !.bobj[b + 1].conn = "gone"], b)
             dispatched == DispatchedBy(pool, r)
         IN /\ Contained(r, b)
            /\ OthersUntouched(r, b, {J(r, id).worker : id \in dispatched})
            /\ IF dispatched = {} THEN r.items = pool.items /\ r.jobs = pool.jobs
               ELSE r.ev.passes = 1 /\ r.items = Tail(pool.items)
                    /\ dispatched = {pool.items[1].id}
  /\ \A b \in Roster(pool), replenish \in BOOLEAN, t \in SpecificTypes :
       LET r == killBrowser(Begin, b, replenish, t)
       IN /\ Contained(r, b)
          /\ OthersUntouched(r, b, {})
          /\ r.items = pool.items /\ r.jobs = pool.jobs

\* C34 witness: a browser on which a job is running is in the roster while
\* another job is queued, so that a disconnect or a kill of it acts on a pool
\* with a pending promise and a non-empty queue.
C34_Witness ==
  \E b \in Roster(pool) :
    /\ B(pool, b).conn = "connected" /\ B(pool, b).busy
    /\ \E id \in TaskIds(pool) : J(pool, id).worker = b /\ J(pool, id).prom = "pending"
    /\ pool.items # <<>>
    /\ b \notin Roster(onDisconnected([Begin EXCEPT !.bobj[b + 1].conn = "gone"], b))

\* C35: once shuttingDown is set no job is dispatched and no launch is
\* started, by any handler: the completion of a job, a disconnect, a launch
\* that lands, killBrowser, or shutdown() itself.
NoDispatch ==
  \A id \in TaskIds(pool') :
    J(pool', id).worker =
      (IF id \in TaskIds(pool) THEN J(pool, id).worker ELSE NoBrowser)
NoLaunchStarted == \A k \in LaunchKinds : pool'.launches[k] <= pool.launches[k]
C35_QuietAfterShutdown ==
  [][pool'.shuttingDown => NoDispatch /\ NoLaunchStarted]_vars

\* C35 witness: the pool is shutting down, a job dispatched before is still
\* running, and a browser has already left the roster, so that a type is
\* below its cap.
C35_Witness ==
  /\ pool.shuttingDown /\ phase = "ready"
  /\ \E id \in TaskIds(pool) : J(pool, id).run = "racing"
  /\ \E type \in Types : countOfType(pool, type) < maxOfType(type)
  /\ \E b \in BrowserIds(pool) : B(pool, b).conn = "gone"

\* C36: when getBrowserPool resolves, the roster holds exactly
\* pool_size_default default browsers and pool_size_adblock adblock browsers,
\* all idle with no page open, the queue is empty and shuttingDown is false.
WarmedUp(s) ==
  /\ Cardinality({b \in Roster(s) : B(s, b).type = "default"}) = pool_size_default
  /\ Cardinality({b \in Roster(s) : B(s, b).type = "adblock"}) = pool_size_adblock
  /\ Len(s.browsers) = pool_size_default + pool_size_adblock
  /\ \A b \in Roster(s) : ~B(s, b).busy /\ B(s, b).pagesOpen = 0
  /\ s.items = <<>>
  /\ ~s.shuttingDown
C36_ResolvesWithFullRoster ==
  /\ phase = "ready" => WarmedUp(pool)
  /\ [][phase = "warmup" /\ phase' = "ready" => WarmedUp(pool')]_vars

\* C37: every browser has pagesOpen 0 or 1, and 1 exactly when busy is true;
\* at most one dispatched job holds a browser at a time, also when
\* maxPagesPerBrowser is above 1.
C37_OnePagePerBrowser ==
  \A b \in BrowserIds(pool) :
    /\ B(pool, b).pagesOpen \in {0, 1}
    /\ B(pool, b).pagesOpen = 1 <=> B(pool, b).busy
    /\ Cardinality(Holders(b)) <= 1
    /\ B(pool, b).busy <=> Holders(b) # {}

\* C37 witness: with maxPagesPerBrowser = 2 a browser is busy with one page
\* open while a job of its type waits in the queue.
C37_Witness ==
  /\ maxPagesPerBrowser = 2
  /\ \E b \in Roster(pool) :
       /\ B(pool, b).busy /\ B(pool, b).pagesOpen = 1
       /\ pool.items # <<>>
       /\ requiredTypeOf(pool.items[1].requirements) = B(pool, b).type
       /\ \E id \in TaskIds(pool) : J(pool, id).worker = b /\ J(pool, id).run = "racing"

\* C38: shutdown() does not settle a job that was dispatched before it: the
\* promise of a dispatched job is never rejected with the cancellation error
\* and is settled only by the result, the error or the timeout of its own
\* race; shutdown() resolves whatever those jobs are doing.
WasDispatched(id) == J(pool, id).worker # NoBrowser
C38_ShutdownSparesDispatched ==
  /\ \A id \in TaskIds(pool) :
       WasDispatched(id) =>
         /\ J(pool, id).prom # "rejectedShutdown"
         /\ J(pool, id).prom = "resolved" => J(pool, id).first = "success"
         /\ J(pool, id).prom = "rejectedError" => J(pool, id).first = "failure"
         /\ J(pool, id).prom = "rejectedTimeout" => J(pool, id).first = "timeout"
         /\ J(shutdown(Begin), id).prom = J(pool, id).prom
         /\ J(shutdown(Begin), id).settles = J(pool, id).settles
  /\ \A i \in Calls : pool.calls[i].state = "timer" => pool.shutdownTimers # <<>>
  /\ Alive /\ pool.shutdownTimers # <<>> /\ TurnOver => ENABLED ShutdownResolves

\* C38 witness: a call of shutdown() has resolved while a job dispatched
\* before it is still running with its promise pending.
C38_Witness ==
  /\ \E i \in Calls : Resolved(i)
  /\ \E id \in TaskIds(pool) :
       /\ WasDispatched(id) /\ J(pool, id).prom = "pending"
       /\ J(pool, id).fn = "running" /\ J(pool, id).run = "racing"

\* C39: a browser taken out of the roster is never put back and is never
\* given a job afterwards; when the job that was running on it ends, the
\* release changes that browser's own flags and no roster entry.
Removed(s) == BrowserIds(s) \ Roster(s)
NeverBack == Removed(pool) \subseteq Removed(pool')
DispatchToRoster ==
  \A id \in TaskIds(pool') :
    (id \in TaskIds(pool) => J(pool, id).worker = NoBrowser)
      /\ J(pool', id).worker # NoBrowser
    => J(pool', id).worker \in Roster(pool')
ReleaseOfRemoved ==
  \A id \in TaskIds(pool) :
    J(pool, id).run = "reported" /\ J(pool, id).worker \in Removed(pool) =>
      LET w == J(pool, id).worker
          r == finallyHandler(Begin, id)
      IN /\ r.browsers = pool.browsers
         /\ ~B(r, w).busy /\ B(r, w).pagesOpen = B(pool, w).pagesOpen - 1
         /\ \A c \in Roster(pool) :
              B(r, c) = B(pool, c) \/ c \in {J(r, j).worker : j \in DispatchedBy(pool, r)}
         /\ w \notin {J(r, j).worker : j \in DispatchedBy(pool, r)}
C39_RemovedStaysRemoved ==
  /\ []ReleaseOfRemoved
  /\ [][NeverBack /\ DispatchToRoster]_vars

\* C39 witness: the job that was running on a removed browser has been
\* released, and another job was dispatched after the removal.
C39_Witness ==
  \E b \in Removed(pool), id \in TaskIds(pool) :
    /\ J(pool, id).worker = b /\ J(pool, id).releases = 1
    /\ ~B(pool, b).busy
    /\ \E j \in TaskIds(pool) : J(pool, j).worker \in Roster(pool)

====
